---- MODULE Spec2Model ----
(***************************************************************************)
(* A model of kyuri's concurrent bar registry and draw scheduler           *)
(* (src/src/lib.rs, src/src/ticker.rs, src/src/writer.rs).                 *)
(*                                                                         *)
(* Threads take one step per lock acquisition or atomic access; a step     *)
(* that needs a mutex is enabled only while the mutex is free.  The        *)
(* manager's strong count is the Manager handle plus the Arcs upgraded by  *)
(* threads that are inside a Bar method, a KyuriWriter method or the       *)
(* ticker loop.                                                            *)
(***************************************************************************)
EXTENDS Integers, Sequences, FiniteSets, TLC

\* ---------------------------------------------------------------- bounds
\* operations started by the user threads after the workers are spawned
MaxOps == 2
\* bits of the unsigned words (u64, usize) of the rendering scenario
Bits == 4
\* wakeups of the ticker's timed wait in one behaviour
MaxTicks == 2
\* bars created by the main thread before the workers are spawned
MaxBars == 2
\* operations of the rate-limit scenario
RateOps == 4
\* the clock of the rate-limit scenario runs from Interval to MaxTime
MaxTime == 4

\* ManagerInner.interval, the argument of Manager::new
Interval == 2

None == "none"
Tk == "tk"
Users == {"u1", "u2"}
Threads == Users \cup {Tk}
MgrLocks == {"last_draw", "out", "states", "ticker", "cv"}
BarIds == 0 .. (MaxBars - 1)

\* arguments the operations are called with
NewLens == {2}
PosArgs == {2}
LenArgs == {1}
Msgs == {0}
Tpls == {1}

VARIABLES
    pc,          \* position of every thread
    loc,         \* locals of every thread
    ret,         \* what the last operation of a thread returned
    handle,      \* the caller still owns the Manager (one strong reference)
    holds,       \* Arc<ManagerInner> upgraded and held by a thread
    mgr,         \* "alive", "dropping" (ManagerInner::drop runs), "dead"
    bars,        \* BarState of every identifier
    reg,         \* keys of ManagerInner.states
    hnd,         \* identifiers whose Bar handle exists
    next_id,     \* ManagerInner.next_id
    last_draw,   \* ManagerInner.last_draw
    last_lines,  \* ManagerInner.last_lines
    need_redraw, \* ManagerInner.need_redraw
    ticker,      \* ManagerInner.ticker is Some
    stopped,     \* the bool of the Ticker's condvar pair
    lk,          \* owner of each manager mutex
    blk,         \* owner of each BarState mutex
    clock,       \* std::time::Instant::now()
    sink,        \* everything written to the output, in order
    term,        \* the sink is a terminal (or ANSI is forced)
    started,     \* the main thread has spawned the workers
    nops,        \* operations started since then
    ticks,       \* timeouts of the ticker's wait so far
    quota,       \* operations the user threads may start
    dirt,        \* per bar: a mutator ran since the bar was last written
    incs         \* per bar: the sum of the n of the calls inc(n) made on it

vars == <<pc, loc, ret, handle, holds, mgr, bars, reg, hnd, next_id, last_draw,
          last_lines, need_redraw, ticker, stopped, lk, blk, clock, sink, term,
          started, nops, ticks, quota, dirt, incs>>

\* ------------------------------------------------------------- the data
NoLoc == [op |-> None, bar |-> 0, arg |-> 0, force |-> FALSE, now |-> 0,
          it |-> 0, rows |-> 0, id |-> 0, pre |-> None]

NoRet == [op |-> None, val |-> 0, gone |-> FALSE]

\* BarState before create_bar fills it
NoBar == [len |-> 0, pos |-> 0, message |-> 0, template |-> 0,
          visible |-> FALSE, need_redraw |-> FALSE]

\* strong count of the Arc<ManagerInner>
Strong == (IF handle THEN 1 ELSE 0) + holds["u1"] + holds["u2"] + holds[Tk]

\* an upgrade that does not look at the strong count
upgrade_always == TRUE

\* Weak::upgrade succeeds while a strong reference is left
upgrade == Strong > 0

\* display width of a message
MsgWidth(m) == 3 * m

\* decimal digits of n
Digits(n) == IF n < 10 THEN 1 ELSE 2

\* BarState::render, as the display widths of the lines of the rendering:
\* template 0 is "{msg}", template 1 is "{msg}\n{pos}/{total}"
render(st) ==
    IF st.template = 0
    THEN <<MsgWidth(st.message)>>
    ELSE <<MsgWidth(st.message), Digits(st.pos) + 1 + Digits(st.len)>>

\* get_width: the columns of the terminal
get_width == 2

RECURSIVE SumRows(_, _)
SumRows(ws, col) ==
    IF ws = <<>> THEN 0
    ELSE (Head(ws) \div col) + (IF Head(ws) % col # 0 THEN 1 ELSE 0)
         + SumRows(Tail(ws), col)

\* the rows draw_inner counts for one bar: the splits of "render()\n" at '\n'
\* are the rendered lines and one empty string
Newlines(st) == SumRows(render(st) \o <<0>>, get_width)

\* entries of the sink
BarLine(t, b, st) ==
    [k |-> "bar", id |-> b, pos |-> st.pos, len |-> st.len, msg |-> st.message,
     tpl |-> st.template, by |-> t, src |-> loc[t].op, op |-> loc[t].id, force |-> loc[t].force,
     at |-> loc[t].now]

Erase(t) ==
    [k |-> "erase", id |-> 0, pos |-> 0, len |-> 0, msg |-> 0,
     tpl |-> 0, by |-> t, src |-> loc[t].op, op |-> loc[t].id, force |-> loc[t].force,
     at |-> loc[t].now]

\* what the closure of suspend writes
Body(t) ==
    [k |-> "body", id |-> 0, pos |-> 0, len |-> 0, msg |-> 0,
     tpl |-> 0, by |-> t, src |-> loc[t].op, op |-> loc[t].id, force |-> loc[t].force,
     at |-> loc[t].now]

\* n copies of e
Rep(n, e) == [i \in 1 .. n |-> e]

\* a clear that erases nothing
clear_nothing(t) == <<>>

\* a clear that erases one line whatever the last frame
clear_once(t) == <<Erase(t)>>

\* clear_existing: one cursor-up + clear-line per line of the last frame
clear_existing(t) == Rep(last_lines, Erase(t))

\* a mutex that excludes nobody
Free_open(l) == TRUE

Free(l) == lk[l] = None

\* ---------------------------------------------------------------- Init
\* Manager::new; the sink is a terminal or not, and the user threads start
\* q operations
InitBars(q, bs) ==
    /\ pc = [t \in Threads |-> IF t = Tk THEN "exited" ELSE "idle"]
    /\ loc = [t \in Threads |-> NoLoc]
    /\ ret = [t \in Threads |-> NoRet]
    /\ handle = TRUE
    /\ holds = [t \in Threads |-> 0]
    /\ mgr = "alive"
    /\ bars = bs
    /\ reg = {}
    /\ hnd = {}
    /\ next_id = 0
    /\ clock = Interval
    /\ last_draw = clock - Interval
    /\ last_lines = 0
    /\ need_redraw = FALSE
    /\ ticker = FALSE
    /\ stopped = FALSE
    /\ lk = [l \in MgrLocks |-> None]
    /\ blk = [b \in BarIds |-> None]
    /\ sink = <<>>
    /\ term \in BOOLEAN
    /\ started = FALSE
    /\ nops = 0
    /\ ticks = 0
    /\ quota = q
    /\ dirt = [b \in BarIds |-> FALSE]
    /\ incs = [b \in BarIds |-> 0]

InitWith(q) == InitBars(q, [b \in BarIds |-> NoBar])

Init == InitWith(MaxOps)

mvars == <<handle, holds, mgr>>
rvars == <<bars, reg, next_id, dirt>>
svars == <<last_draw, last_lines, need_redraw>>
tvars == <<ticker, stopped, ticks>>
lvars == <<lk, blk>>
evars == <<clock, term, started, nops, quota, incs>>

Mutators == {"inc", "set_pos", "set_len", "set_message", "set_template"}
Accessors == {"get_pos", "get_len", "is_visible", "alive"}
BarOps == Mutators \cup Accessors \cup {"set_visible", "finish", "drop"}
MgrOps == {"create_bar", "draw", "suspend", "set_ticker"}
\* the callers of ManagerInner::suspend: Manager::suspend and KyuriWriter
SuspendOps == {"suspend", "write"}

\* what an accessor returns when the manager (or the entry) is gone
Default(op) ==
    CASE op \in {"get_pos", "get_len"} -> 0
      [] op \in {"is_visible", "alive"} -> FALSE
      [] OTHER -> 0

\* an operation returns to its caller
Return(t, op, val, gone) ==
    /\ pc' = [pc EXCEPT ![t] = "idle"]
    /\ loc' = [loc EXCEPT ![t] = NoLoc]
    /\ ret' = [ret EXCEPT ![t] = [op |-> op, val |-> val, gone |-> gone]]

\* Instant - Instant saturates at zero
Since(now, then) == IF now >= then THEN now - then ELSE 0

\* ------------------------------------------------ ManagerInner::draw
\* where a thread goes on when draw returns
AfterDraw(op) ==
    CASE op \in BarOps -> "rel"
      [] op = "mgr_drop" -> "fields"
      [] op = "tick" -> "t_end"
      [] OTHER -> "idle"

\* draw returns: a Manager method returns with it (create_bar hands out the
\* Bar), every other caller goes on
DrawReturn(t) ==
    LET op == loc[t].op IN
    /\ hnd' = IF op = "create_bar" THEN hnd \cup {loc[t].bar} ELSE hnd
    /\ IF AfterDraw(op) = "idle"
       THEN Return(t, op, 0, FALSE)
       ELSE /\ pc' = [pc EXCEPT ![t] = AfterDraw(op)]
            /\ loc' = [loc EXCEPT ![t].now = 0, ![t].it = 0, ![t].rows = 0]
            /\ UNCHANGED ret

\* a ticker gate that drops nothing
TickerGate_off(force, enabled) == FALSE

\* a ticker gate that drops the forced requests too
TickerGate_all(force, enabled) == enabled

\* the ticker gate of draw, lib.rs:287
TickerGate(force, enabled) == ~force /\ enabled

\* a rate-limit gate that does not look at force
RateGate_noforce(force, now, last) == Since(now, last) < Interval

\* a rate-limit gate that drops nothing
RateGate_never(force, now, last) == FALSE

\* the rate-limit gate of draw, lib.rs:292
RateGate(force, now, last) == ~force /\ Since(now, last) < Interval

\* draw, up to Instant::now(): an unforced request asks is_ticker_enabled,
\* which locks ManagerInner.ticker
draw_gate(t) ==
    /\ pc[t] = "d0"
    /\ loc[t].force \/ Free("ticker")
    /\ IF TickerGate(loc[t].force, ticker)
       THEN DrawReturn(t)
       ELSE /\ pc' = [pc EXCEPT ![t] = "d_lock"]
            /\ loc' = [loc EXCEPT ![t].now = clock]
            /\ UNCHANGED <<ret, hnd>>
    /\ UNCHANGED <<mvars, rvars, svars, tvars, lvars, evars, sink>>

\* a dirty gate that drops nothing
Clean_never(flag) == FALSE

\* the dirty gate of draw, lib.rs:296: need_redraw.swap(false) returned false
Clean(flag) == ~flag

\* draw: lock last_draw, the rate-limit gate, the swap of need_redraw
draw_lock(t) ==
    /\ pc[t] = "d_lock"
    /\ Free("last_draw")
    /\ IF RateGate(loc[t].force, loc[t].now, last_draw)
       THEN DrawReturn(t) /\ UNCHANGED <<need_redraw, lk>>
       ELSE IF Clean(need_redraw)
       THEN DrawReturn(t) /\ UNCHANGED <<need_redraw, lk>>
       ELSE /\ need_redraw' = FALSE
            /\ lk' = [lk EXCEPT !["last_draw"] = t]
            /\ pc' = [pc EXCEPT ![t] = "d_out"]
            /\ UNCHANGED <<loc, ret, hnd>>
    /\ UNCHANGED <<mvars, rvars, last_draw, last_lines, tvars, blk, evars, sink>>

\* draw: lock out
draw_out(t) ==
    /\ pc[t] = "d_out"
    /\ Free("out")
    /\ lk' = [lk EXCEPT !["out"] = t]
    /\ pc' = [pc EXCEPT ![t] = "d_states"]
    /\ UNCHANGED <<loc, ret, hnd, mvars, rvars, svars, tvars, blk, evars, sink>>

\* draw: lock states, clear the last frame on a terminal with bars
draw_states(t) ==
    /\ pc[t] = "d_states"
    /\ Free("states")
    /\ lk' = [lk EXCEPT !["states"] = t]
    /\ sink' = sink \o (IF term /\ reg # {} THEN clear_existing(t) ELSE <<>>)
    /\ pc' = [pc EXCEPT ![t] = "d_inner"]
    /\ loc' = [loc EXCEPT ![t].it = 0, ![t].rows = 0]
    /\ UNCHANGED <<ret, hnd, mvars, rvars, svars, tvars, blk, evars>>

\* the entries draw_inner has still to visit
Rest(t) == {b \in reg : b >= loc[t].it}

\* an iteration that starts at the largest key
Min_last(S) == CHOOSE x \in S : \A y \in S : x >= y

Min(S) == CHOOSE x \in S : \A y \in S : x <= y

\* skipping nothing
Skips_never(st, is_terminal) == FALSE

\* skipping every entry
Skips_all(st, is_terminal) == TRUE

\* skipping the invisible entries only
Skips_invisible(st, is_terminal) == ~st.visible

\* draw_inner skips an entry, lib.rs:254-259
Skips(st, is_terminal) ==
    \/ ~st.visible
    \/ ~is_terminal /\ ~st.need_redraw

\* draw_inner, one entry of the registry: lock the BarState, write it unless
\* it is skipped
draw_inner(t) ==
    /\ pc[t] = "d_inner"
    /\ Rest(t) # {}
    /\ UNCHANGED pc
    /\ LET b == Min(Rest(t))
           st == bars[b]
       IN /\ blk[b] = None
          /\ IF Skips(st, term)
             THEN /\ loc' = [loc EXCEPT ![t].it = b + 1]
                  /\ UNCHANGED <<sink, bars, dirt>>
             ELSE /\ sink' = Append(sink, BarLine(t, b, st))
                  /\ loc' = [loc EXCEPT ![t].it = b + 1,
                                        ![t].rows = @ + (IF term THEN Newlines(st) ELSE 0)]
                  /\ bars' = [bars EXCEPT ![b].need_redraw = FALSE]
                  /\ dirt' = [dirt EXCEPT ![b] = FALSE]
    /\ UNCHANGED <<ret, hnd, mvars, reg, next_id, svars, tvars, lvars, evars>>

\* draw_inner stores last_lines; draw stores last_draw and unlocks
draw_end(t) ==
    /\ pc[t] = "d_inner"
    /\ loc[t].op \notin SuspendOps
    /\ Rest(t) = {}
    /\ last_lines' = IF term THEN loc[t].rows ELSE last_lines
    /\ last_draw' = loc[t].now
    /\ lk' = [lk EXCEPT !["states"] = None, !["out"] = None, !["last_draw"] = None]
    /\ DrawReturn(t)
    /\ UNCHANGED <<mvars, rvars, need_redraw, tvars, blk, evars, sink>>

\* ------------------------------------------------------- the Arc
\* without the final draw
DropEntry_nodraw == "fields"

\* Drop for ManagerInner: self.draw(true), a forced request that starts at
\* Instant::now()
DropEntry == "d_lock"

\* a thread drops its Arc<ManagerInner>; the last one runs
\* ManagerInner::drop, which starts with draw(true)
ReleaseArc(t, op, val, to) ==
    /\ holds' = [holds EXCEPT ![t] = @ - 1]
    /\ IF Strong = 1
       THEN /\ mgr' = "dropping"
            /\ pc' = [pc EXCEPT ![t] = DropEntry]
            /\ loc' = [loc EXCEPT ![t].op = "mgr_drop", ![t].pre = op,
                                  ![t].arg = val, ![t].force = TRUE,
                                  ![t].now = clock]
            /\ UNCHANGED ret
       ELSE /\ mgr' = mgr
            /\ IF to = "idle"
               THEN Return(t, op, val, FALSE)
               ELSE /\ pc' = [pc EXCEPT ![t] = to]
                    /\ loc' = [loc EXCEPT ![t] = NoLoc]
                    /\ UNCHANGED ret

\* the end of a Bar method: the upgraded Arc goes out of scope
release(t) ==
    /\ pc[t] = "rel"
    /\ ReleaseArc(t, loc[t].op,
                  IF loc[t].op \in Accessors THEN loc[t].arg ELSE 0, "idle")
    /\ UNCHANGED <<handle, hnd, rvars, svars, tvars, lvars, evars, sink>>

\* ------------------------------------------------------------ Bar
\* thread u is inside a method of Bar b (which borrows the handle)
Using(u, b) ==
    /\ pc[u] # "idle"
    /\ loc[u].bar = b
    /\ loc[u].op \in BarOps \/ loc[u].pre \in BarOps

\* a Bar method starts with get_manager_and_state: Weak::upgrade, and with
\* no manager the method returns at once (an accessor its default)
BarCall(t, b, op, arg, force) ==
    /\ pc[t] = "idle"
    /\ started
    /\ nops < quota
    /\ b \in hnd
    /\ op = "drop" => \A u \in Threads : ~Using(u, b)
    /\ nops' = nops + 1
    /\ incs' = IF op = "inc" /\ upgrade THEN [incs EXCEPT ![b] = @ + arg] ELSE incs
    /\ hnd' = IF op = "drop" THEN hnd \ {b} ELSE hnd
    /\ IF upgrade
       THEN /\ holds' = [holds EXCEPT ![t] = @ + 1]
            /\ pc' = [pc EXCEPT ![t] = "gms"]
            /\ loc' = [loc EXCEPT ![t] = [NoLoc EXCEPT !.op = op, !.bar = b,
                                          !.arg = arg, !.force = force,
                                          !.id = nops + 1]]
            /\ UNCHANGED ret
       ELSE /\ Return(t, op, Default(op), TRUE)
            /\ UNCHANGED holds
    /\ UNCHANGED <<handle, mgr, rvars, svars, tvars, lvars, clock, term, started, quota, sink>>

inc(t) == \E b \in BarIds : BarCall(t, b, "inc", 1, FALSE)

set_pos(t) == \E b \in BarIds, p \in PosArgs : BarCall(t, b, "set_pos", p, FALSE)

set_len(t) == \E b \in BarIds, l \in LenArgs : BarCall(t, b, "set_len", l, FALSE)

set_message(t) == \E b \in BarIds, m \in Msgs : BarCall(t, b, "set_message", m, FALSE)

set_template(t) == \E b \in BarIds, x \in Tpls : BarCall(t, b, "set_template", x, FALSE)

set_visible(t) == \E b \in BarIds, v \in BOOLEAN : BarCall(t, b, "set_visible", v, TRUE)

finish(t) == \E b \in BarIds : BarCall(t, b, "finish", 0, TRUE)

get_pos(t) == \E b \in BarIds : BarCall(t, b, "get_pos", 0, FALSE)

get_len(t) == \E b \in BarIds : BarCall(t, b, "get_len", 0, FALSE)

is_visible(t) == \E b \in BarIds : BarCall(t, b, "is_visible", 0, FALSE)

alive(t) == \E b \in BarIds : BarCall(t, b, "alive", 0, FALSE)

drop_bar(t) == \E b \in BarIds : BarCall(t, b, "drop", 0, TRUE)

\* where a Bar method goes on with the manager and the state in hand
AfterGms(op) ==
    CASE op \in Mutators -> "mut"
      [] op \in {"get_pos", "get_len", "is_visible"} -> "acc"
      [] op = "alive" -> "rel"
      [] op = "set_visible" -> "vis"
      [] op = "finish" -> "fin"
      [] OTHER -> "rm"

\* get_manager_and_state, the second line: lock states, get, clone, unlock
get_manager_and_state(t) ==
    /\ pc[t] = "gms"
    /\ Free("states")
    /\ IF loc[t].bar \in reg
       THEN /\ pc' = [pc EXCEPT ![t] = AfterGms(loc[t].op)]
            /\ loc' = [loc EXCEPT ![t].arg = IF loc[t].op = "alive" THEN TRUE ELSE @]
       ELSE /\ pc' = [pc EXCEPT ![t] = "rel"]
            /\ loc' = [loc EXCEPT ![t].arg = Default(loc[t].op)]
    /\ UNCHANGED <<ret, hnd, mvars, rvars, svars, tvars, lvars, evars, sink>>

\* an inc that stores n and loses the position it found
Mutated_lost(st, op, arg) == [st EXCEPT !.pos = arg, !.need_redraw = TRUE]

\* a mutator that marks the bar only when the value changes
Mutated_changed(st, op, arg) ==
    LET new == CASE op = "inc" -> [st EXCEPT !.pos = @ + arg]
                 [] op = "set_pos" -> [st EXCEPT !.pos = arg]
                 [] op = "set_len" -> [st EXCEPT !.len = arg]
                 [] op = "set_message" -> [st EXCEPT !.message = arg]
                 [] OTHER -> [st EXCEPT !.template = arg]
    IN IF new = st THEN st ELSE [new EXCEPT !.need_redraw = TRUE]

\* what a mutator stores in the BarState
Mutated(st, op, arg) ==
    CASE op = "inc" -> [st EXCEPT !.pos = @ + arg, !.need_redraw = TRUE]
      [] op = "set_pos" -> [st EXCEPT !.pos = arg, !.need_redraw = TRUE]
      [] op = "set_len" -> [st EXCEPT !.len = arg, !.need_redraw = TRUE]
      [] op = "set_message" -> [st EXCEPT !.message = arg, !.need_redraw = TRUE]
      [] OTHER -> [st EXCEPT !.template = arg, !.need_redraw = TRUE]

\* a mutator that keeps the guard of the BarState while it draws
Guard_kept(t) == t

\* the owner of the BarState lock after std::mem::drop(state)
Guard(t) == None

\* inc, set_pos, set_len, set_message, set_template: lock the BarState,
\* store, set its need_redraw, unlock
mutate(t) ==
    /\ pc[t] = "mut"
    /\ blk[loc[t].bar] = None
    /\ bars' = [bars EXCEPT ![loc[t].bar] = Mutated(@, loc[t].op, loc[t].arg)]
    /\ dirt' = [dirt EXCEPT ![loc[t].bar] = TRUE]
    /\ blk' = [blk EXCEPT ![loc[t].bar] = Guard(t)]
    /\ pc' = [pc EXCEPT ![t] = "mark"]
    /\ UNCHANGED <<loc, ret, hnd, mvars, reg, next_id, svars, tvars, lk, evars, sink>>

\* ManagerInner::mark_redraw, followed by the call of draw
mark_redraw(t) ==
    /\ pc[t] = "mark"
    /\ need_redraw' = TRUE
    /\ pc' = [pc EXCEPT ![t] = "d0"]
    /\ UNCHANGED <<loc, ret, hnd, mvars, rvars, last_draw, last_lines, tvars, lvars,
                   evars, sink>>

\* the value an accessor reads under the BarState lock
Field(st, op) ==
    CASE op = "get_pos" -> st.pos
      [] op = "get_len" -> st.len
      [] OTHER -> st.visible

\* get_pos, get_len, is_visible: lock the BarState and read
access(t) ==
    /\ pc[t] = "acc"
    /\ blk[loc[t].bar] = None
    /\ pc' = [pc EXCEPT ![t] = "rel"]
    /\ loc' = [loc EXCEPT ![t].arg = Field(bars[loc[t].bar], loc[t].op)]
    /\ UNCHANGED <<ret, hnd, mvars, rvars, svars, tvars, lvars, evars, sink>>

\* a set_visible that takes every call for a change
Changes_always(st, visible) == TRUE

\* set_visible: state.visible != visible
Changes(st, visible) == st.visible # visible

\* set_visible: lock the BarState; only a change is stored, marked and drawn
set_visible_lock(t) ==
    /\ pc[t] = "vis"
    /\ blk[loc[t].bar] = None
    /\ IF Changes(bars[loc[t].bar], loc[t].arg)
       THEN /\ bars' = [bars EXCEPT ![loc[t].bar].visible = loc[t].arg,
                                    ![loc[t].bar].need_redraw = TRUE]
            /\ dirt' = [dirt EXCEPT ![loc[t].bar] = TRUE]
            /\ pc' = [pc EXCEPT ![t] = "mark"]
       ELSE /\ pc' = [pc EXCEPT ![t] = "rel"]
            /\ UNCHANGED <<bars, dirt>>
    /\ UNCHANGED <<loc, ret, hnd, mvars, reg, next_id, svars, tvars, lvars, evars, sink>>

\* finish: lock the BarState and keep the guard; with pos # len call
\* self.set_pos(len), which upgrades once more, while the guard is held;
\* otherwise drop the guard and draw(true)
finish_lock(t) ==
    /\ pc[t] = "fin"
    /\ blk[loc[t].bar] = None
    /\ IF bars[loc[t].bar].pos # bars[loc[t].bar].len
       THEN /\ blk' = [blk EXCEPT ![loc[t].bar] = t]
            /\ holds' = [holds EXCEPT ![t] = @ + 1]
            /\ pc' = [pc EXCEPT ![t] = "gms"]
            /\ loc' = [loc EXCEPT ![t].op = "set_pos", ![t].pre = "finish",
                                  ![t].arg = bars[loc[t].bar].len,
                                  ![t].force = FALSE]
       ELSE /\ pc' = [pc EXCEPT ![t] = "d0"]
            /\ UNCHANGED <<blk, holds, loc>>
    /\ UNCHANGED <<ret, hnd, handle, mgr, rvars, svars, tvars, lk, evars, sink>>

\* a drop that leaves the entry in the registry
Removed_not(keys, id) == keys

\* BTreeMap::remove(&self.id)
Removed(keys, id) == keys \ {id}

\* Drop for Bar: lock states and remove the entry
remove(t) ==
    /\ pc[t] = "rm"
    /\ Free("states")
    /\ reg' = Removed(reg, loc[t].bar)
    /\ pc' = [pc EXCEPT ![t] = "mark"]
    /\ UNCHANGED <<loc, ret, hnd, mvars, bars, next_id, dirt, svars, tvars, lvars,
                   evars, sink>>

\* -------------------------------------------------------- Manager
\* thread u is inside a method of Manager (which borrows the handle)
InManager(u) == pc[u] # "idle" /\ loc[u].op \in MgrOps

\* the BarState create_bar builds
NewBar(len, vis) ==
    [len |-> len, pos |-> 0, message |-> 1, template |-> 0,
     visible |-> vis, need_redraw |-> TRUE]

\* create_bar: next_id.fetch_add(1).  The main thread creates the bars
\* before it spawns the workers.
create_bar(t) ==
    /\ pc[t] = "idle"
    /\ t = "u1"
    /\ ~started
    /\ handle
    /\ next_id < MaxBars
    /\ \E v \in BOOLEAN :
          loc' = [loc EXCEPT ![t] = [NoLoc EXCEPT !.op = "create_bar",
                                     !.bar = next_id, !.arg = v, !.force = TRUE,
                                     !.id = 0 - (next_id + 1)]]
    /\ next_id' = next_id + 1
    /\ pc' = [pc EXCEPT ![t] = "ins"]
    /\ UNCHANGED <<ret, hnd, mvars, bars, reg, dirt, svars, tvars, lvars, evars, sink>>

\* create_bar called while the workers run
create_bar_running(t) ==
    /\ pc[t] = "idle"
    /\ started
    /\ nops < quota
    /\ handle
    /\ next_id < MaxBars
    /\ nops' = nops + 1
    /\ \E v \in BOOLEAN :
          loc' = [loc EXCEPT ![t] = [NoLoc EXCEPT !.op = "create_bar",
                                     !.bar = next_id, !.arg = v, !.force = TRUE,
                                     !.id = 0 - (next_id + 1)]]
    /\ next_id' = next_id + 1
    /\ pc' = [pc EXCEPT ![t] = "ins"]
    /\ UNCHANGED <<ret, hnd, mvars, bars, reg, dirt, svars, tvars, lvars, clock, term, incs,
                   started, quota, sink>>

\* create_bar: lock states and insert; a visible bar is marked and drawn
\* before the Bar is returned
insert(t) ==
    /\ pc[t] = "ins"
    /\ Free("states")
    /\ reg' = reg \cup {loc[t].bar}
    /\ \E len \in NewLens :
          bars' = [bars EXCEPT ![loc[t].bar] = NewBar(len, loc[t].arg)]
    /\ dirt' = [dirt EXCEPT ![loc[t].bar] = TRUE]
    /\ IF loc[t].arg
       THEN /\ pc' = [pc EXCEPT ![t] = "mark"]
            /\ UNCHANGED <<loc, ret, hnd>>
       ELSE /\ Return(t, "create_bar", 0, FALSE)
            /\ hnd' = hnd \cup {loc[t].bar}
    /\ UNCHANGED <<mvars, next_id, svars, tvars, lvars, evars, sink>>

\* the main thread spawns the workers
Spawn ==
    /\ ~started
    /\ pc["u1"] = "idle"
    /\ started' = TRUE
    /\ UNCHANGED <<pc, loc, ret, hnd, mvars, rvars, svars, tvars, lvars, clock, term, incs,
                   nops, quota, sink>>

\* Manager::draw(force)
Manager_draw(t) ==
    /\ pc[t] = "idle"
    /\ started
    /\ nops < quota
    /\ handle
    /\ nops' = nops + 1
    /\ \E force \in BOOLEAN :
          loc' = [loc EXCEPT ![t] = [NoLoc EXCEPT !.op = "draw", !.force = force,
                                     !.id = nops + 1]]
    /\ pc' = [pc EXCEPT ![t] = "d0"]
    /\ UNCHANGED <<ret, hnd, mvars, rvars, svars, tvars, lvars, clock, term, incs, started,
                   quota, sink>>

\* Manager::suspend(f)
Manager_suspend(t) ==
    /\ pc[t] = "idle"
    /\ started
    /\ nops < quota
    /\ handle
    /\ nops' = nops + 1
    /\ loc' = [loc EXCEPT ![t] = [NoLoc EXCEPT !.op = "suspend", !.id = nops + 1]]
    /\ pc' = [pc EXCEPT ![t] = "s_out"]
    /\ UNCHANGED <<ret, hnd, mvars, rvars, svars, tvars, lvars, clock, term, incs, started,
                   quota, sink>>

\* suspend returns: Manager::suspend returns with it, a KyuriWriter method
\* goes on to drop its Arc
SuspendReturn(t) ==
    IF loc[t].op = "suspend"
    THEN Return(t, "suspend", 0, FALSE)
    ELSE /\ pc' = [pc EXCEPT ![t] = "rel"]
         /\ loc' = [loc EXCEPT ![t].it = 0, ![t].rows = 0]
         /\ UNCHANGED ret

\* suspend: lock out, clear the last frame on a terminal
suspend_out(t) ==
    /\ pc[t] = "s_out"
    /\ Free("out")
    /\ lk' = [lk EXCEPT !["out"] = t]
    /\ sink' = sink \o (IF term THEN clear_existing(t) ELSE <<>>)
    /\ pc' = [pc EXCEPT ![t] = "s_body"]
    /\ UNCHANGED <<loc, ret, hnd, mvars, rvars, svars, tvars, blk, evars>>

\* suspend: f(&mut out); without a terminal nothing else is done
suspend_body(t) ==
    /\ pc[t] = "s_body"
    /\ sink' = Append(sink, Body(t))
    /\ IF term
       THEN /\ pc' = [pc EXCEPT ![t] = "s_states"]
            /\ UNCHANGED <<loc, ret, lk>>
       ELSE /\ lk' = [lk EXCEPT !["out"] = None]
            /\ SuspendReturn(t)
    /\ UNCHANGED <<hnd, mvars, rvars, svars, tvars, blk, evars>>

\* suspend: lock states for draw_inner
suspend_states(t) ==
    /\ pc[t] = "s_states"
    /\ Free("states")
    /\ lk' = [lk EXCEPT !["states"] = t]
    /\ pc' = [pc EXCEPT ![t] = "d_inner"]
    /\ loc' = [loc EXCEPT ![t].it = 0, ![t].rows = 0]
    /\ UNCHANGED <<ret, hnd, mvars, rvars, svars, tvars, blk, evars, sink>>

\* suspend: draw_inner stores last_lines, the guards are dropped
suspend_end(t) ==
    /\ pc[t] = "d_inner"
    /\ loc[t].op \in SuspendOps
    /\ Rest(t) = {}
    /\ last_lines' = loc[t].rows
    /\ lk' = [lk EXCEPT !["states"] = None, !["out"] = None]
    /\ SuspendReturn(t)
    /\ UNCHANGED <<hnd, mvars, rvars, last_draw, need_redraw, tvars, blk, evars, sink>>

\* --------------------------------------------------- KyuriWriter
\* a write that puts the erases of the last frame before the bytes
Direct_clearing(t) == clear_existing(t) \o <<Body(t)>>

\* what a write puts to the sink when the manager is gone: buf
Direct(t) == <<Body(t)>>

\* a method of KyuriWriter (write, flush, write_all, ..): with the manager
\* upgraded it calls manager.suspend, else it locks its own clone of out
writer_write(t) ==
    /\ pc[t] = "idle"
    /\ started
    /\ nops < quota
    /\ nops' = nops + 1
    /\ loc' = [loc EXCEPT ![t] = [NoLoc EXCEPT !.op = "write", !.id = nops + 1]]
    /\ IF upgrade
       THEN /\ holds' = [holds EXCEPT ![t] = @ + 1]
            /\ pc' = [pc EXCEPT ![t] = "s_out"]
       ELSE /\ pc' = [pc EXCEPT ![t] = "w_out"]
            /\ UNCHANGED holds
    /\ UNCHANGED <<ret, hnd, handle, mgr, rvars, svars, tvars, lvars, clock, term, incs,
                   started, quota, sink>>

\* self.out.lock().unwrap().write(buf)
writer_direct(t) ==
    /\ pc[t] = "w_out"
    /\ Free("out")
    /\ sink' = sink \o Direct(t)
    /\ Return(t, "write", 0, TRUE)
    /\ UNCHANGED <<hnd, mvars, rvars, svars, tvars, lvars, evars>>

\* the caller drops the Manager: its strong reference goes, and the last
\* one runs ManagerInner::drop
drop_manager(t) ==
    /\ pc[t] = "idle"
    /\ started
    /\ nops < quota
    /\ handle
    /\ \A u \in Threads : ~InManager(u)
    /\ nops' = nops + 1
    /\ handle' = FALSE
    /\ IF Strong = 1
       THEN /\ mgr' = "dropping"
            /\ pc' = [pc EXCEPT ![t] = DropEntry]
            /\ loc' = [loc EXCEPT ![t] = [NoLoc EXCEPT !.op = "mgr_drop",
                                          !.pre = "drop_manager", !.force = TRUE,
                                          !.now = clock, !.id = nops + 1]]
            /\ UNCHANGED ret
       ELSE /\ mgr' = mgr
            /\ Return(t, "drop_manager", 0, FALSE)
    /\ UNCHANGED <<hnd, holds, rvars, svars, tvars, lvars, clock, term, incs, started, quota, sink>>

\* a set_ticker(true) that starts a thread whether or not one runs
Spawns_always(on, ticking) == on

\* set_ticker && ticker.is_none()
Spawns(on, ticking) == on /\ ~ticking

\* Manager::set_ticker: lock ManagerInner.ticker; Some(Ticker::new(..))
\* spawns the thread, None drops the Ticker with the lock still held
set_ticker_to(t, on) ==
    /\ pc[t] = "idle"
    /\ handle
    /\ IF started THEN nops < quota /\ nops' = nops + 1
                  ELSE t = "u1" /\ nops' = nops
    /\ Free("ticker")
    /\ IF Spawns(on, ticker)
       THEN /\ ticker' = TRUE
            /\ stopped' = FALSE
            /\ pc' = [pc EXCEPT ![Tk] = "t_up", ![t] = "idle"]
            /\ ret' = [ret EXCEPT ![t] = [op |-> "set_ticker", val |-> 0, gone |-> FALSE]]
            /\ UNCHANGED <<loc, lk>>
       ELSE IF ~on /\ ticker
       THEN /\ lk' = [lk EXCEPT !["ticker"] = t]
            /\ pc' = [pc EXCEPT ![t] = "stop"]
            /\ loc' = [loc EXCEPT ![t] = [NoLoc EXCEPT !.op = "set_ticker",
                                          !.id = nops']]
            /\ UNCHANGED <<ticker, stopped, ret>>
       ELSE /\ Return(t, "set_ticker", 0, FALSE)
            /\ UNCHANGED <<ticker, stopped, lk>>
    /\ UNCHANGED <<hnd, mvars, rvars, svars, ticks, blk, clock, term, incs, started, quota, sink>>

set_ticker(t) == \E on \in BOOLEAN : set_ticker_to(t, on)

\* ManagerInner::drop after its draw: the fields are dropped, the Ticker
\* among them
fields(t) ==
    /\ pc[t] = "fields"
    /\ IF ticker
       THEN /\ pc' = [pc EXCEPT ![t] = "stop"]
            /\ UNCHANGED <<loc, ret, mgr>>
       ELSE /\ mgr' = "dead"
            /\ Return(t, loc[t].pre, loc[t].arg, FALSE)
    /\ UNCHANGED <<hnd, handle, holds, rvars, svars, tvars, lvars, evars, sink>>

\* ------------------------------------------------------- Ticker
\* Ticker::stop: lock the condvar's mutex, set the flag, notify
stop(t) ==
    /\ pc[t] = "stop"
    /\ Free("cv")
    /\ stopped' = TRUE
    /\ pc' = [pc EXCEPT ![t] = "join"]
    /\ UNCHANGED <<loc, ret, hnd, mvars, rvars, svars, ticker, ticks, lvars, evars, sink>>

\* Drop for Ticker: join the thread; then set_ticker stores None and
\* unlocks, and ManagerInner::drop is done
join(t) ==
    /\ pc[t] = "join"
    /\ t # Tk
    /\ pc[Tk] = "exited"
    /\ ticker' = FALSE
    /\ IF loc[t].op = "set_ticker"
       THEN /\ lk' = [lk EXCEPT !["ticker"] = None]
            /\ Return(t, "set_ticker", 0, FALSE)
            /\ mgr' = mgr
       ELSE /\ mgr' = "dead"
            /\ Return(t, loc[t].pre, loc[t].arg, FALSE)
            /\ lk' = lk
    /\ UNCHANGED <<hnd, handle, holds, rvars, svars, stopped, ticks, blk, evars, sink>>

\* Drop for Ticker on the ticker thread itself, which has dropped the last
\* Arc: the thread joins itself, and JoinHandle::join either never returns or
\* panics ("failed to join thread"), as the platform has it; the panic
\* unwinds out of ManagerInner's drop and ends the thread
join_self ==
    /\ pc[Tk] = "join"
    /\ \/ /\ pc' = [pc EXCEPT ![Tk] = "hung"]
          /\ UNCHANGED <<loc, ret, mgr, ticker>>
       \/ /\ pc' = [pc EXCEPT ![Tk] = "exited"]
          /\ loc' = [loc EXCEPT ![Tk] = NoLoc]
          /\ ret' = [ret EXCEPT ![Tk] = [op |-> "panic", val |-> 0, gone |-> FALSE]]
          /\ mgr' = "dead"
          /\ ticker' = FALSE
    /\ UNCHANGED <<hnd, handle, holds, rvars, svars, stopped, ticks, lvars, evars, sink>>

\* the thread's loop head: while let Some(manager) = manager2.upgrade()
ticker_upgrade ==
    /\ pc[Tk] = "t_up"
    /\ IF upgrade
       THEN /\ holds' = [holds EXCEPT ![Tk] = @ + 1]
            /\ pc' = [pc EXCEPT ![Tk] = "t_wait"]
       ELSE /\ pc' = [pc EXCEPT ![Tk] = "exited"]
            /\ UNCHANGED holds
    /\ UNCHANGED <<loc, ret, hnd, handle, mgr, rvars, svars, tvars, lvars, evars, sink>>

\* wait_timeout_while returns with the mutex locked: stopped, and the loop
\* breaks; or timed out, and the thread calls manager.draw(false) with the
\* guard `done` alive
ticker_wait ==
    /\ pc[Tk] = "t_wait"
    /\ Free("cv")
    /\ IF stopped
       THEN /\ pc' = [pc EXCEPT ![Tk] = "t_brk"]
            /\ UNCHANGED <<loc, lk, ticks>>
       ELSE /\ ticks < MaxTicks
            /\ ticks' = ticks + 1
            /\ lk' = [lk EXCEPT !["cv"] = Tk]
            /\ loc' = [loc EXCEPT ![Tk] = [NoLoc EXCEPT !.op = "tick", !.force = FALSE,
                                           !.id = 0 - ticks']]
            /\ pc' = [pc EXCEPT ![Tk] = "d0"]
    /\ UNCHANGED <<ret, hnd, mvars, rvars, svars, ticker, stopped, blk, evars, sink>>

\* the end of an iteration: `done` unlocks the mutex, `manager` is dropped
ticker_end ==
    /\ pc[Tk] = "t_end"
    /\ lk' = [lk EXCEPT !["cv"] = None]
    /\ ReleaseArc(Tk, "tick", 0, "t_up")
    /\ UNCHANGED <<handle, hnd, rvars, svars, tvars, blk, evars, sink>>

\* break: `manager` is dropped and the thread ends
ticker_break ==
    /\ pc[Tk] = "t_brk"
    /\ ReleaseArc(Tk, "tick", 0, "exited")
    /\ UNCHANGED <<handle, hnd, rvars, svars, tvars, lvars, evars, sink>>

\* ---------------------------------------------------------- time
Tick ==
    /\ clock < MaxTime
    /\ clock' = clock + 1
    /\ UNCHANGED <<pc, loc, ret, hnd, mvars, rvars, svars, tvars, lvars, term, incs, started,
                   nops, quota, sink>>

\* --------------------------------------------------- blocked threads
\* the mutex a thread must acquire for its next step
Wants(t) ==
    CASE pc[t] = "d0" /\ ~loc[t].force -> "ticker"
      [] pc[t] = "d_lock" -> "last_draw"
      [] pc[t] \in {"d_out", "s_out", "w_out"} -> "out"
      [] pc[t] \in {"d_states", "s_states", "gms", "rm", "ins"} -> "states"
      [] pc[t] \in {"stop", "t_wait"} -> "cv"
      [] OTHER -> None

\* the BarState mutex a thread must acquire for its next step
WantsBar(t) ==
    CASE pc[t] \in {"mut", "acc", "vis", "fin"} -> loc[t].bar
      [] pc[t] = "d_inner" /\ Rest(t) # {} -> Min(Rest(t))
      [] OTHER -> 0 - 1

\* the thread that t waits for: the owner of the mutex it must acquire, or
\* the ticker thread it joins
WaitsOn(t) ==
    IF t = None THEN None
    ELSE IF Wants(t) # None THEN lk[Wants(t)]
    ELSE IF WantsBar(t) >= 0 THEN blk[WantsBar(t)]
    ELSE IF pc[t] = "join" /\ t # Tk /\ pc[Tk] # "exited" THEN Tk
    ELSE IF pc[t] = "hung" THEN t
    ELSE None

\* t waits in a cycle of threads that wait for one another (or for itself):
\* with three threads a chain of three waits closes a cycle, and no mutex of
\* the cycle is ever unlocked
Stuck(t) ==
    /\ WaitsOn(t) # None
    /\ WaitsOn(WaitsOn(t)) # None
    /\ WaitsOn(WaitsOn(WaitsOn(t))) # None

\* the positions inside ManagerInner::draw
DrawPcs == {"d0", "d_lock", "d_out", "d_states", "d_inner"}

\* the thread takes part in the step
Acting(t) == pc'[t] # pc[t] \/ loc'[t] # loc[t]

\* the lines of bars the request that t runs has written
Wrote(t) ==
    {i \in DOMAIN sink : sink[i].k = "bar" /\ sink[i].by = t /\ sink[i].op = loc[t].id
                         /\ sink[i].src = loc[t].op}

\* the rows a written line of w columns takes on a terminal of col columns:
\* the '\n' that ends it moves the cursor down even when the line is empty
LineRows(w, col) == IF w = 0 THEN 1 ELSE (w + col - 1) \div col

RECURSIVE PhysRows(_, _)
PhysRows(ws, col) ==
    IF ws = <<>> THEN 0
    ELSE LineRows(Head(ws), col) + PhysRows(Tail(ws), col)

\* the rows the bytes of one written bar take: format!("{}\n", render())
Occupies(e) ==
    PhysRows(render([message |-> e.msg, template |-> e.tpl, pos |-> e.pos,
                     len |-> e.len]), get_width)

RECURSIVE FrameRows(_)
FrameRows(S) ==
    IF S = {} THEN 0
    ELSE LET i == CHOOSE x \in S : TRUE
         IN Occupies(sink[i]) + FrameRows(S \ {i})

\* ------------------------------------------------ specifications
\* the steps inside draw
DrawSteps(t) ==
    \/ draw_gate(t)
    \/ draw_lock(t)
    \/ draw_out(t)
    \/ draw_states(t)
    \/ draw_inner(t)
    \/ draw_end(t)

\* the steps inside the Bar methods
BarSteps(t) ==
    \/ get_manager_and_state(t)
    \/ mutate(t)
    \/ mark_redraw(t)
    \/ release(t)

\* the bars are created by the main thread
Setup ==
    \/ create_bar("u1")
    \/ insert("u1")
    \/ mark_redraw("u1")
    \/ Spawn

\* a worker mutates and finishes bars while the main thread draws
Next ==
    \/ Setup
    \/ Manager_draw("u1")
    \/ inc("u2")
    \/ set_pos("u2")
    \/ set_visible("u2")
    \/ set_visible_lock("u2")
    \/ finish("u2")
    \/ finish_lock("u2")
    \/ drop_bar("u2")
    \/ remove("u2")
    \/ BarSteps("u2")
    \/ \E t \in Users : DrawSteps(t)

Spec == Init /\ [][Next]_vars

\* ------------------------------------------------------- teardown
\* the caller drops the Manager while a worker uses the Bar handles
NextTeardown ==
    \/ Setup
    \/ drop_manager("u1")
    \/ inc("u2")
    \/ set_pos("u2")
    \/ set_len("u2")
    \/ set_message("u2")
    \/ set_template("u2")
    \/ set_visible("u2")
    \/ set_visible_lock("u2")
    \/ finish("u2")
    \/ finish_lock("u2")
    \/ get_pos("u2")
    \/ get_len("u2")
    \/ is_visible("u2")
    \/ alive("u2")
    \/ access("u2")
    \/ drop_bar("u2")
    \/ remove("u2")
    \/ BarSteps("u2")
    \/ \E t \in Users : DrawSteps(t) \/ fields(t)

SpecTeardown == Init /\ [][NextTeardown]_vars

\* ------------------------------------------------------ rate limit
\* the main thread draws while a worker increments, long enough for the
\* interval to pass twice
NextRate ==
    \/ Setup
    \/ Tick
    \/ Manager_draw("u1")
    \/ inc("u2")
    \/ BarSteps("u2")
    \/ \E t \in Users : DrawSteps(t)

SpecRate == InitWith(RateOps) /\ [][NextRate]_vars

\* ---------------------------------------------------------- ticker
\* the main thread switches the ticker and draws while a worker increments
\* and the ticker thread runs
NextTicker ==
    \/ Setup
    \/ set_ticker("u1")
    \/ Manager_draw("u1")
    \/ inc("u2")
    \/ BarSteps("u2")
    \/ stop("u1")
    \/ join("u1")
    \/ ticker_upgrade
    \/ ticker_wait
    \/ ticker_end
    \/ ticker_break
    \/ \E t \in Threads : DrawSteps(t)

SpecTicker == Init /\ [][NextTicker]_vars

\* --------------------------------------------------------- suspend
\* the steps inside suspend
SuspendSteps(t) ==
    \/ suspend_out(t)
    \/ suspend_body(t)
    \/ suspend_states(t)
    \/ suspend_end(t)

\* the main thread draws and suspends while a worker changes messages and
\* shows and hides bars
NextSuspend ==
    \/ Setup
    \/ Manager_draw("u1")
    \/ Manager_suspend("u1")
    \/ SuspendSteps("u1")
    \/ set_message("u2")
    \/ set_visible("u2")
    \/ set_visible_lock("u2")
    \/ BarSteps("u2")
    \/ \E t \in Users : DrawSteps(t)

SpecSuspend == Init /\ [][NextSuspend]_vars

\* C1: once no strong reference to the manager is left, a call on a Bar
\* handle returns at once: get_pos and get_len return 0, is_visible and
\* alive return false, and no call (the mutators, finish and the drop of
\* the handle included) writes to the sink or changes the manager, the
\* registry, a BarState or a lock
C1_InertAfterTeardown ==
    [][(Strong = 0 /\ nops' = nops + 1) =>
          /\ \E t \in Users :
                /\ ret'[t].gone
                /\ ret'[t].op \in BarOps
                /\ ret'[t].op \in {"get_pos", "get_len"} => ret'[t].val = 0
                /\ ret'[t].op \in {"is_visible", "alive"} => ret'[t].val = FALSE
                /\ \A u \in Threads \ {t} : ret'[u] = ret[u]
          /\ UNCHANGED <<pc, loc, mvars, rvars, svars, tvars, lvars, sink>>]_vars

\* is_visible has returned false on a handle that outlived the manager,
\* for a bar that is visible and still registered
C1_Witness ==
    /\ mgr = "dead"
    /\ hnd # {}
    /\ ret["u2"].gone
    /\ ret["u2"].op = "is_visible"
    /\ ret["u2"].val = FALSE
    /\ \E b \in hnd : b \in reg /\ bars[b].visible

\* C6: ManagerInner::drop runs on one thread, as one forced draw; when it
\* is done every visible bar of the registry has been written since its
\* last mutation, and nothing is written afterwards
C6_FinalDraw ==
    [][/\ mgr' = "dead" => \A b \in reg' : bars'[b].visible => ~dirt'[b]
       /\ mgr = "dead" => sink' = sink
       /\ mgr' = "dropping" =>
             Cardinality({t \in Threads : loc'[t].op = "mgr_drop" /\ loc'[t].force}) = 1]_vars

\* the final draw has written a mutation whose own draw request was dropped
C6_Witness ==
    /\ mgr = "dead"
    /\ \E i \in DOMAIN sink :
          sink[i].src = "mgr_drop" /\ sink[i].k = "bar" /\ sink[i].pos > 0

\* C2 as stated: a forced Manager::draw that returns while the registry is
\* non-empty has written a bar to the sink
C2_ForcedAlwaysWrites ==
    [][\A t \in Users :
          (loc[t].op = "draw" /\ loc[t].force /\ pc[t] \in DrawPcs /\ pc'[t] = "idle"
             /\ reg # {})
          => Wrote(t) # {}]_vars

\* C2: a forced draw request is dropped neither by the ticker gate nor by
\* the rate-limit gate; it returns without drawing only when the global
\* dirty flag is clear; with the flag set it clears the flag, visits every
\* entry of the registry, writes each entry that is visible (and, on a
\* non-terminal sink, dirty) and stores its request time in last_draw
C2_ForcedDraw ==
    [][\A t \in Threads :
          (loc[t].force /\ pc[t] \in DrawPcs /\ Acting(t)) =>
             /\ pc[t] = "d0" => pc'[t] = "d_lock" /\ sink' = sink
             /\ pc[t] = "d_lock" =>
                   IF need_redraw
                   THEN pc'[t] = "d_out" /\ ~need_redraw'
                   ELSE pc'[t] \notin DrawPcs /\ sink' = sink /\ last_draw' = last_draw
             /\ (pc[t] = "d_inner" /\ pc'[t] = "d_inner") =>
                   LET b == Min(Rest(t)) IN
                   sink' = IF bars[b].visible /\ (term \/ bars[b].need_redraw)
                           THEN Append(sink, BarLine(t, b, bars[b]))
                           ELSE sink
             /\ (pc[t] = "d_inner" /\ pc'[t] # "d_inner") =>
                   Rest(t) = {} /\ last_draw' = loc[t].now]_vars

\* a forced Manager::draw has written a bar while the ticker is enabled and
\* less than the interval after the last draw
C2_Witness ==
    /\ pc["u1"] = "d_inner"
    /\ loc["u1"].op = "draw"
    /\ loc["u1"].force
    /\ ticker
    /\ Since(loc["u1"].now, last_draw) < Interval
    /\ Wrote("u1") # {}

\* C3 as stated: the bars written by two different unforced requests are
\* written by requests at least the interval apart
C3_AtMostOneWrite ==
    \A i, j \in DOMAIN sink :
       (/\ sink[i].k = "bar" /\ sink[j].k = "bar"
        /\ ~sink[i].force /\ ~sink[j].force
        /\ sink[i].op # sink[j].op)
       => \/ sink[i].at - sink[j].at >= Interval
          \/ sink[j].at - sink[i].at >= Interval

\* C4: on a non-terminal sink a bar is written only if a mutator ran on it
\* since it was last written (since it was created, for the first write),
\* and the write clears the bar's dirty flag
C4_NoReprint ==
    [][\A b \in BarIds :
          (/\ ~term
           /\ Len(sink') > Len(sink)
           /\ sink'[Len(sink')].k = "bar"
           /\ sink'[Len(sink')].id = b)
          => /\ dirt[b] /\ ~dirt'[b]
             /\ bars[b].need_redraw /\ ~bars'[b].need_redraw]_vars

\* a non-terminal sink holds two lines of the same bar, the bar mutated in
\* between
C4_Witness ==
    /\ ~term
    /\ \E i, j \in DOMAIN sink :
          /\ i < j
          /\ sink[i].k = "bar" /\ sink[j].k = "bar"
          /\ sink[i].id = sink[j].id
          /\ sink[i].pos < sink[j].pos

\* C5: on a non-terminal sink a forced draw that found the global dirty
\* flag set visits the entries of the registry in order, each once, writes
\* an entry with its current position, length and message exactly when it
\* is visible and dirty, and has written no bar twice when it ends; an
\* unforced request that comes less than the interval after the last draw
\* returns without writing
C5_NonTerminalForcedDraw ==
    [][~term => \A t \in Users :
          (Acting(t) /\ pc[t] \in DrawPcs) =>
             /\ (loc[t].force /\ pc[t] = "d_inner" /\ pc'[t] = "d_inner") =>
                   LET b == Min(Rest(t)) IN
                   /\ loc'[t].it = b + 1
                   /\ sink' = IF bars[b].visible /\ bars[b].need_redraw
                              THEN Append(sink,
                                     [BarLine(t, b, bars[b]) EXCEPT
                                        !.pos = bars[b].pos, !.len = bars[b].len,
                                        !.msg = bars[b].message])
                              ELSE sink
             /\ (loc[t].force /\ pc[t] = "d_inner" /\ pc'[t] # "d_inner") =>
                   /\ Rest(t) = {}
                   /\ sink' = sink
                   /\ \A i, j \in Wrote(t) : sink[i].id = sink[j].id => i = j
             /\ (~loc[t].force /\ pc[t] = "d_lock"
                   /\ Since(loc[t].now, last_draw) < Interval) =>
                   /\ pc'[t] \notin DrawPcs
                   /\ sink' = sink
                   /\ need_redraw' = need_redraw]_vars

\* a forced draw on a non-terminal sink has visited the registry, written a
\* dirty bar and skipped a visible bar that was not dirty
C5_Witness ==
    /\ ~term
    /\ \E t \in Users :
          /\ pc[t] = "d_inner"
          /\ loc[t].op = "draw"
          /\ loc[t].force
          /\ Rest(t) = {}
          /\ Wrote(t) # {}
          /\ \E b \in reg : bars[b].visible /\ \A i \in Wrote(t) : sink[i].id # b

\* C7 as stated: a thread inside finish is never blocked for ever
C7_FinishReturns ==
    \A t \in Users : (loc[t].op = "finish" \/ loc[t].pre = "finish") => ~Stuck(t)

\* C8 as stated: the draw of a tick passes both gates, so it returns only
\* after drawing or because the global dirty flag is clear
C8_TickDraws ==
    [][(loc[Tk].op = "tick" /\ pc[Tk] \in DrawPcs /\ pc'[Tk] = "t_end")
          => \/ pc[Tk] = "d_inner"
             \/ pc[Tk] = "d_lock" /\ ~need_redraw]_vars

\* C9 as stated: a thread inside set_ticker is never blocked for ever
C9_SetTickerReturns ==
    \A t \in Users : loc[t].op = "set_ticker" => ~Stuck(t)

C11_RowsExact ==
    [][\A t \in Users :
          (term /\ pc[t] = "d_inner" /\ pc'[t] # "d_inner")
              => last_lines' = FrameRows(Wrote(t))]_vars

\* the bar lines in the sink that belong to the same request as entry i
SameRequest(i, j) ==
    /\ sink[i].by = sink[j].by
    /\ sink[i].src = sink[j].src
    /\ sink[i].op = sink[j].op

\* C12: a frame writes the bars in the order of their creation: draw_inner
\* visits the registry in increasing order of identifier and passes over no
\* entry, so the bar lines of one request have increasing identifiers, and
\* create_bar hands out an identifier above those of all bars created
\* before it.
C12_CreationOrder ==
    [][/\ \A t \in Users :
             (pc[t] = "d_inner" /\ pc'[t] = "d_inner" /\ loc'[t].it # loc[t].it)
                 => /\ loc'[t].it - 1 \in reg
                    /\ \A x \in reg : ~(loc[t].it <= x /\ x < loc'[t].it - 1)
       /\ \A i, j \in DOMAIN sink' :
             (i < j /\ sink'[i].k = "bar" /\ sink'[j].k = "bar"
                /\ sink'[i].by = sink'[j].by /\ sink'[i].src = sink'[j].src
                /\ sink'[i].op = sink'[j].op)
                 => sink'[i].id < sink'[j].id
       /\ \A t \in Users :
             (pc[t] = "idle" /\ pc'[t] = "ins")
                 => \A b \in reg \cup hnd : b < loc'[t].bar]_vars

\* one request has written two bars, the second created after the first
C12_Witness ==
    \E i, j \in DOMAIN sink :
        /\ i < j
        /\ sink[i].k = "bar" /\ sink[j].k = "bar"
        /\ SameRequest(i, j)
        /\ sink[i].id < sink[j].id
        /\ sink[i].id \in hnd /\ sink[j].id \in hnd

\* C13: the output of draws never interleaves: what one call of draw or
\* suspend writes (erases, the closure's output, bar lines) is one
\* contiguous block of the sink, with nothing of another call in between.
C13_NoInterleaving ==
    [][\A n \in DOMAIN sink' \ DOMAIN sink :
          /\ \E t \in Users : sink'[n].by = t /\ (lk["out"] = t \/ lk'["out"] = t)
          /\ \A i \in DOMAIN sink :
                (sink[i].by = sink'[n].by /\ sink[i].op = sink'[n].op
                   /\ sink[i].src = sink'[n].src)
                    => SameRequest(i, Len(sink))]_vars

\* a thread waits for the sink while another thread is in the middle of its
\* frame
C13_Witness ==
    \E t, u \in Users :
        /\ t # u
        /\ pc[t] \in {"d_out", "s_out"}
        /\ lk["out"] = u
        /\ pc[u] \in {"d_inner", "s_body", "s_states"}
        /\ \E i \in DOMAIN sink : sink[i].by = u /\ sink[i].op = loc[u].id
        /\ \E i \in DOMAIN sink : sink[i].by = t

\* what the call of suspend that t runs has written
Suspended(t) ==
    {i \in DOMAIN sink : sink[i].by = t /\ sink[i].op = loc[t].id
                         /\ sink[i].src = "suspend"}

Quiescent == \A t \in Users : pc[t] = "idle"

\* C15: while the manager is alive, in every quiescent state the keys of
\* the registry are the identifiers of the handles that create_bar has
\* returned and that are not dropped; create_bar issues increasing
\* identifiers, none twice; and an identifier leaves the registry only in
\* the drop of its handle.
C15_RegistryIsHandles ==
    [][/\ (Quiescent' /\ handle') => reg' = hnd'
       /\ \A t \in Users :
             (pc[t] = "idle" /\ pc'[t] = "ins")
                 => /\ loc'[t].bar = next_id
                    /\ next_id' > next_id
                    /\ \A b \in reg \cup hnd : b < loc'[t].bar
       /\ \A b \in reg \ reg' :
             /\ b \notin hnd
             /\ \E t \in Users : pc[t] = "rm" /\ loc[t].op = "drop" /\ loc[t].bar = b
                                 /\ pc'[t] # "rm"
       /\ \A b \in reg' \ reg :
             /\ b \notin hnd
             /\ \E t \in Users : pc[t] = "ins" /\ loc[t].bar = b]_vars

\* a handle was dropped while another one is left, and the threads are idle
C15_Witness ==
    /\ Quiescent
    /\ handle
    /\ ret["u2"].op = "drop"
    /\ hnd # {}
    /\ Cardinality(hnd) < next_id
    /\ reg = hnd

\* ------------------------------------------------------- visibility
\* a worker shows, hides, queries and increments bars while the main thread
\* draws
NextVisible ==
    \/ Setup
    \/ Manager_draw("u1")
    \/ inc("u2")
    \/ set_visible("u2")
    \/ set_visible_lock("u2")
    \/ is_visible("u2")
    \/ access("u2")
    \/ BarSteps("u2")
    \/ \E t \in Users : DrawSteps(t)

SpecVisible == Init /\ [][NextVisible]_vars

\* C16: set_visible(v) on a bar whose visibility is already v changes no
\* state and writes nothing; when v differs it stores v, marks the bar and
\* the manager for redraw and makes a forced draw request.  When
\* set_visible(v) returns the bar's visibility is v, and is_visible returns
\* the bar's visibility.
C16_SetVisible ==
    [][\A t \in Users :
          LET b == loc[t].bar
              v == loc[t].arg
          IN /\ (pc[t] = "vis" /\ pc'[t] # "vis" /\ bars[b].visible = v)
                   => /\ pc'[t] = "rel"
                      /\ UNCHANGED <<bars, reg, sink, last_draw, last_lines,
                                     need_redraw>>
             /\ (pc[t] = "vis" /\ pc'[t] # "vis" /\ bars[b].visible # v)
                   => /\ bars'[b].visible = v
                      /\ bars'[b].need_redraw
                      /\ pc'[t] = "mark"
                      /\ loc'[t].force
             /\ (pc[t] = "mark" /\ loc[t].op = "set_visible" /\ pc'[t] # "mark")
                   => need_redraw' /\ pc'[t] = "d0" /\ loc'[t].force
             /\ (pc[t] = "rel" /\ loc[t].op = "set_visible" /\ pc'[t] = "idle")
                   => /\ bars[b].visible = v
                      /\ (Wrote(t) = {} \/ \A i \in Wrote(t) : sink[i].force)
             /\ (pc[t] = "rel" /\ loc[t].op = "is_visible" /\ pc'[t] = "idle")
                   => /\ v = bars[b].visible
                      /\ ret'[t].val = v]_vars

\* a set_visible that changed the visibility has drawn, and a set_visible
\* with the value the bar already has is about to return without a write
C16_Witness ==
    /\ \E i \in DOMAIN sink : sink[i].src = "set_visible" /\ sink[i].k = "bar"
    /\ pc["u2"] = "rel"
    /\ loc["u2"].op = "set_visible"
    /\ bars[loc["u2"].bar].visible = loc["u2"].arg
    /\ \A i \in DOMAIN sink : sink[i].op # loc["u2"].id

\* ---------------------------------------------------- create_bar
\* the main thread, which has set the ticker before it spawned the worker,
\* creates bars while the worker shows and hides the bars it has and the
\* ticker thread runs
NextCreate ==
    \/ Setup
    \/ ~started /\ set_ticker("u1")
    \/ stop("u1")
    \/ join("u1")
    \/ create_bar_running("u1")
    \/ set_visible("u2")
    \/ get_manager_and_state("u2")
    \/ set_visible_lock("u2")
    \/ mark_redraw("u2")
    \/ release("u2")
    \/ ticker_upgrade
    \/ ticker_wait
    \/ ticker_end
    \/ ticker_break
    \/ \E t \in Threads : DrawSteps(t)

SpecCreate == Init /\ [][NextCreate]_vars

\* C17: create_bar(.., visible = true) returns only after the new bar has
\* been written to the sink with position 0, inside the rate interval, with
\* the ticker on, and whatever the other threads draw meanwhile;
\* create_bar(.., visible = false) writes nothing and leaves the manager's
\* need_redraw as it is.
C17_CreateDrawsFirst ==
    [][\A t \in Users :
          /\ (loc[t].op = "create_bar" /\ loc[t].arg /\ pc[t] # "idle"
                /\ pc'[t] = "idle")
                => \E i \in DOMAIN sink :
                      /\ sink[i].k = "bar"
                      /\ sink[i].id = loc[t].bar
                      /\ sink[i].pos = 0
          /\ (loc[t].op = "create_bar" /\ ~loc[t].arg /\ pc[t] # "idle"
                /\ pc'[t] # pc[t])
                => /\ pc[t] = "ins"
                   /\ pc'[t] = "idle"
                   /\ UNCHANGED <<sink, need_redraw>>]_vars

\* with the ticker on, a create_bar that ran beside a worker's forced draw
\* has returned: the worker's frame holds the new bar, and create_bar's own
\* draw request found nothing left to draw
C17_Witness ==
    /\ started
    /\ ticker
    /\ ret["u1"].op = "create_bar"
    /\ pc["u1"] = "idle"
    /\ \E i \in DOMAIN sink :
          /\ sink[i].k = "bar"
          /\ sink[i].by = "u2"
          /\ sink[i].id \in hnd
          /\ sink[i].id = next_id - 1
          /\ \A j \in DOMAIN sink :
                (sink[j].k = "bar" /\ sink[j].id = sink[i].id) => sink[j].by = "u2"

\* ---------------------------------------------------------- inc
\* two threads increment and read the positions of the same bars
NextInc ==
    \/ Setup
    \/ \E t \in Users :
          \/ inc(t)
          \/ get_pos(t)
          \/ access(t)
          \/ BarSteps(t)
          \/ DrawSteps(t)

SpecInc == Init /\ [][NextInc]_vars

\* the n of the calls inc(n) on bar b that have not stored yet
Pending(b) ==
    LET Open(t) == IF loc[t].op = "inc" /\ loc[t].bar = b /\ pc[t] \in {"gms", "mut"}
                   THEN loc[t].arg ELSE 0
    IN Open("u1") + Open("u2")

\* C18: inc(n) is an atomic read-modify-write of the position and takes
\* effect whether or not its draw request is dropped: the position of a bar
\* is always the sum of the n of the calls made on it so far, less those of
\* the calls that have not stored yet, and get_pos returns the position; so
\* after inc(n_1), .., inc(n_k), sequential or concurrent, get_pos returns
\* the initial 0 plus n_1 + .. + n_k.
C18_IncAtomic ==
    [][/\ \A b \in reg' : bars'[b].pos + Pending(b)' = incs'[b]
       /\ \A t \in Users :
             /\ (pc[t] = "acc" /\ loc[t].op = "get_pos" /\ pc'[t] = "rel")
                    => loc'[t].arg + Pending(loc[t].bar) = incs[loc[t].bar]
             /\ (pc[t] = "rel" /\ loc[t].op = "get_pos" /\ pc'[t] = "idle")
                    => ret'[t].val = loc[t].arg]_vars

\* two threads have incremented the same visible bar and have returned; the
\* bar holds the sum although no draw request has written it since
C18_Witness ==
    \E b \in reg :
        /\ Quiescent
        /\ ret["u1"].op = "inc"
        /\ ret["u2"].op = "inc"
        /\ incs[b] = 2
        /\ bars[b].pos = 2
        /\ bars[b].visible
        /\ \A i \in DOMAIN sink : sink[i].pos = 0

\* C19: a draw request, forced or not, that finds the manager's
\* need_redraw false returns without writing and leaves last_draw and
\* last_lines as they are; a request that goes on to draw has found the
\* flag true and has cleared it in the step in which it passed the gate,
\* and only such a request writes or stores last_draw.
C19_DirtyGate ==
    [][\A t \in Users :
          /\ (pc[t] = "d_lock" /\ pc'[t] # "d_lock" /\ ~need_redraw)
                => /\ pc'[t] \notin DrawPcs
                   /\ UNCHANGED <<sink, last_draw, last_lines, need_redraw, lk>>
          /\ (pc[t] = "d_lock" /\ pc'[t] = "d_out")
                => need_redraw /\ ~need_redraw'
          /\ (pc[t] \in DrawPcs /\ loc[t].op # "suspend" /\ Acting(t)
                /\ (sink' # sink \/ last_draw' # last_draw \/ last_lines' # last_lines))
                => pc[t] \in {"d_states", "d_inner"}]_vars

\* after a frame was written, a forced request stands at the gate with
\* nothing marked for redraw
C19_Witness ==
    \E t \in Users :
        /\ pc[t] = "d_lock"
        /\ loc[t].force
        /\ loc[t].op = "draw"
        /\ ~need_redraw
        /\ Free("last_draw")
        /\ \E i \in DOMAIN sink : sink[i].k = "bar"

\* ------------------------------------------------------- rendering
\* u64::MAX and usize::MAX, and isize::MAX, the largest capacity of a String
UMax == 2 ^ Bits - 1
IMax == 2 ^ (Bits - 1) - 1
U64 == 0 .. UMax

\* the thread panics
Panic == 0 - 1

\* the template fields with arithmetic, the sizes of {barNUM}, the seconds
\* since created_at, and whether the build checks integer overflow
Parts == {"BytesPerSecond", "Eta", "Bar", "StateEmoji"}
Sizes == {0, 2}
Elapsed == {0, 1}
Builds == BOOLEAN

\* f64 as u64, f64 as usize: the cast saturates
Sat(x) == IF x > UMax THEN UMax ELSE x

\* a - b on u64: panics when the build checks overflow, wraps otherwise
SubU64(a, b, checked) ==
    IF a >= b THEN a - b
    ELSE IF checked THEN Panic
    ELSE a - b + 2 ^ Bits

\* the length of duration_to_human's "H:MM:SS"
duration_to_human(secs) == Digits(secs \div 3600) + 6

\* the length of bytes_to_human's "{} B"
bytes_to_human(bytes) == Digits(bytes) + 2

\* pos as f64 / elapsed.as_secs_f64() as u64: NaN casts to 0, infinity to
\* u64::MAX
bytes_per_second(st, el) ==
    IF el = 0 THEN (IF st.pos = 0 THEN 0 ELSE UMax) ELSE Sat(st.pos \div el)

\* TemplatePart::Eta: "Unknown" at position 0, else
\* (len - pos) as f64 / bytes_per_second, which is 0 at infinite speed
RenderEta(st, el, checked) ==
    IF st.pos = 0 THEN 7
    ELSE LET left == SubU64(st.len, st.pos, checked)
         IN IF left = Panic THEN Panic
            ELSE duration_to_human(IF el = 0 THEN 0 ELSE Sat((left * el) \div st.pos))

\* (pos as f64 / len as f64 * size as f64) as usize: 0 / 0 and infinity * 0
\* are NaN
Filled(st, size) ==
    IF st.len = 0 THEN (IF st.pos = 0 \/ size = 0 THEN 0 ELSE UMax)
    ELSE Sat((st.pos * size) \div st.len)

\* TemplatePart::Bar: '[', the filled and the empty cells and ']', or '[',
\* size filled cells and filled - size marks; a String cannot grow beyond
\* isize::MAX bytes
RenderBar(st, size) ==
    LET filled == Filled(st, size)
        chars == IF size >= filled THEN size + 2 ELSE filled + 1
    IN IF chars > IMax THEN Panic ELSE chars

\* the length of what render pushes for one template field
RenderPart(st, part, size, el, checked) ==
    CASE part = "BytesPerSecond" -> bytes_to_human(bytes_per_second(st, el)) + 2
      [] part = "Eta" -> RenderEta(st, el, checked)
      [] part = "Bar" -> RenderBar(st, size)
      [] OTHER -> 1

\* a BarState with any position and length
InitRender ==
    \E p, l \in U64 :
        InitBars(MaxOps, [b \in BarIds |-> [NewBar(l, TRUE) EXCEPT !.pos = p]])

\* BarState::render of one template field
render_call(t) ==
    /\ pc[t] = "idle"
    /\ \E b \in BarIds, part \in Parts, size \in Sizes, el \in Elapsed, checked \in Builds :
          ret' = [ret EXCEPT ![t] = [op |-> part, gone |-> FALSE,
                                     val |-> RenderPart(bars[b], part, size, el, checked)]]
    /\ UNCHANGED <<pc, loc, hnd, mvars, rvars, svars, tvars, lvars, evars, sink>>

NextRender == render_call("u1")

SpecRender == InitRender /\ [][NextRender]_vars

\* C20: render never fails on a numeric edge case: whatever the position
\* and the length, with the position above the length, the length 0 or no
\* time elapsed, every template field is rendered to a string, and no
\* integer operation underflows or overflows.
C20_RenderNeverFails == \A t \in Users : ret[t].val # Panic

\* ------------------------------------------------------ KyuriWriter
\* a worker writes through a KyuriWriter and changes messages while the
\* main thread drops the Manager
NextWriter ==
    \/ Setup
    \/ drop_manager("u1")
    \/ set_message("u2")
    \/ BarSteps("u2")
    \/ writer_write("u2")
    \/ writer_direct("u2")
    \/ SuspendSteps("u2")
    \/ \E t \in Users : DrawSteps(t) \/ fields(t)

SpecWriter == Init /\ [][NextWriter]_vars

\* what the call of a KyuriWriter method that t runs has written
Written(t) ==
    {i \in DOMAIN sink : sink[i].by = t /\ sink[i].op = loc[t].id
                         /\ sink[i].src = "write"}

\* C21: a KyuriWriter works after the manager is dropped: with no strong
\* reference left a write appends the given bytes to the sink, and nothing
\* else (no erase, no bar line), and changes nothing of the manager; while
\* the manager is alive the write runs as the body of suspend: under the
\* sink lock, after the erases and before the bars of suspend's redraw.
C21_WriterOutlivesManager ==
    [][\A t \in Users :
          /\ (pc[t] = "idle" /\ loc'[t].op = "write")
                => pc'[t] = IF Strong = 0 THEN "w_out" ELSE "s_out"
          /\ (pc[t] = "w_out" /\ pc'[t] # "w_out")
                => /\ sink' = Append(sink, Body(t))
                   /\ pc'[t] = "idle"
                   /\ UNCHANGED <<bars, reg, last_draw, last_lines, need_redraw, mgr>>
          /\ (loc[t].op = "write" /\ pc[t] \in {"s_body", "d_inner"} /\ pc'[t] = "rel")
                => LET n == Cardinality(Written(t)')
                       first == Len(sink') - n + 1
                   IN /\ lk["out"] = t
                      /\ Written(t)' = first .. Len(sink')
                      /\ Cardinality({i \in Written(t)' : sink'[i].k = "body"}) = 1
                      /\ \A i, j \in Written(t)' :
                            (i < j /\ sink'[j].k = "body") => sink'[i].k = "erase"
                      /\ \A i, j \in Written(t)' :
                            (i < j /\ sink'[i].k = "body") => sink'[j].k = "bar"]_vars

\* on a terminal that shows a frame, a write made after the manager was
\* destroyed has returned: the sink ends with its bytes
C21_Witness ==
    /\ mgr = "dead"
    /\ term
    /\ last_lines > 0
    /\ ret["u2"].op = "write"
    /\ ret["u2"].gone
    /\ pc["u2"] = "idle"
    /\ sink[Len(sink)].k = "body"
    /\ sink[Len(sink) - 1].k = "bar"

\* -------------------------------------------------------- templates
\* a template is a string of at most MaxTpl symbols: a brace, a line feed
\* or a name
MaxTpl == 3

\* the tags of the crate's documentation with the field each one stands
\* for; "bar5" is {barNUM} with NUM = 5
Documented ==
    [msg |-> [k |-> "Message"], message |-> [k |-> "Message"],
     elapsed |-> [k |-> "Elapsed"], elapsed_precise |-> [k |-> "Elapsed"],
     bytes |-> [k |-> "Bytes"], pos |-> [k |-> "Pos"],
     total_bytes |-> [k |-> "TotalBytes"],
     total |-> [k |-> "Total"], len |-> [k |-> "Total"],
     bytes_per_sec |-> [k |-> "BytesPerSecond"],
     bytes_per_second |-> [k |-> "BytesPerSecond"],
     eta |-> [k |-> "Eta"],
     bar |-> [k |-> "Bar", size |-> 20], bar5 |-> [k |-> "Bar", size |-> 5],
     state_emoji |-> [k |-> "StateEmoji"]]

Names == DOMAIN Documented \cup {"foo"}
Symbols == {"{", "}", "\n"} \cup Names

Templates == UNION {[1 .. n -> Symbols] : n \in 0 .. MaxTpl}

Text(text) == [k |-> "Text", text |-> text]
Tag(tag) == [k |-> "Tag", tag |-> tag]

\* the fragments of template[i ..], with current_text and the fragments
\* found so far
RECURSIVE Fragments(_, _, _, _)
Fragments(template, i, current_text, fragments) ==
    LET n == Len(template)
        flushed == IF current_text # <<>> THEN Append(fragments, Text(current_text))
                   ELSE fragments
        closing == {j \in i + 1 .. n : template[j] = "}"}
    IN IF i > n THEN flushed
       ELSE IF template[i] = "{"
       THEN IF i < n /\ template[i + 1] = "{"
            THEN Fragments(template, i + 2, Append(current_text, "{"), fragments)
            ELSE IF closing # {}
            THEN LET j == Min(closing)
                 IN Fragments(template, j + 1, <<>>,
                              Append(flushed, Tag(SubSeq(template, i + 1, j - 1))))
            ELSE Fragments(template, n + 1, <<"{">> \o SubSeq(template, i + 1, n), flushed)
       ELSE IF template[i] = "}"
       THEN Fragments(template, IF i < n /\ template[i + 1] = "}" THEN i + 2 ELSE i + 1,
                      Append(current_text, "}"), fragments)
       ELSE Fragments(template, i + 1, Append(current_text, template[i]), fragments)

\* push_text: the text split at the line feeds, a Newline between the pieces
RECURSIVE push_text(_, _, _)
push_text(results, text, piece) ==
    IF text = <<>> THEN Append(results, Text(piece))
    ELSE IF Head(text) = "\n"
    THEN push_text(results \o <<Text(piece), [k |-> "Newline"]>>, Tail(text), <<>>)
    ELSE push_text(results, Tail(text), Append(piece, Head(text)))

\* the match on the content of a tag
TagPart(tag) ==
    CASE tag \in {<<"msg">>, <<"message">>} -> <<[k |-> "Message"]>>
      [] tag \in {<<"elapsed">>, <<"elapsed_precise">>} -> <<[k |-> "Elapsed"]>>
      [] tag = <<"bytes">> -> <<[k |-> "Bytes"]>>
      [] tag = <<"pos">> -> <<[k |-> "Pos"]>>
      [] tag = <<"total_bytes">> -> <<[k |-> "TotalBytes"]>>
      [] tag = <<"total">> -> <<[k |-> "Total"]>>
      [] tag \in {<<"bytes_per_second">>, <<"bytes_per_sec">>} -> <<[k |-> "BytesPerSecond"]>>
      [] tag = <<"eta">> -> <<[k |-> "Eta"]>>
      [] OTHER -> push_text(<<>>, <<"{">> \o tag \o <<"}">>, <<>>)

RECURSIVE Results(_)
Results(fragments) ==
    IF fragments = <<>> THEN <<>>
    ELSE LET i == Head(fragments)
         IN (IF i.k = "Text" THEN push_text(<<>>, i.text, <<>>) ELSE TagPart(i.tag))
            \o Results(Tail(fragments))

\* Template::new
Template_new(template) == Results(Fragments(template, 1, <<>>, <<>>))

\* the template string that the bars are to be created with is any template
InitTemplate ==
    \E template \in Templates :
        InitBars(MaxOps, [b \in BarIds |-> [NoBar EXCEPT !.template = template]])

\* create_bar and set_template compile the string they are given
template_new(t) ==
    /\ pc[t] = "idle"
    /\ \E b \in BarIds :
          /\ loc' = [loc EXCEPT ![t].op = "Template::new", ![t].arg = bars[b].template]
          /\ ret' = [ret EXCEPT ![t] = [op |-> "Template::new", gone |-> FALSE,
                                        val |-> Template_new(bars[b].template)]]
    /\ UNCHANGED <<pc, hnd, mvars, rvars, svars, tvars, lvars, evars, sink>>

NextTemplate == template_new("u1")

SpecTemplate == InitTemplate /\ [][NextTemplate]_vars

\* C22: every tag of the documented vocabulary compiles to the instruction
\* of its field, the aliases of a field to one instruction, and only a name
\* outside the vocabulary is given back as literal text with its braces:
\* the template "{name}" compiles to the one instruction of the name when
\* the name is documented, and to the text "{name}" otherwise.
C22_TagVocabulary ==
    \A t \in Users :
        ret[t].op = "Template::new" =>
            \A name \in Names :
                loc[t].arg = <<"{", name, "}">> =>
                    ret[t].val = IF name \in DOMAIN Documented
                                 THEN <<Documented[name]>>
                                 ELSE <<Text(<<"{", name, "}">>)>>

\* ------------------------------------------------------ append mode
\* the main thread draws, suspends and drops the Manager while a worker
\* changes messages, hides and shows bars and writes through a KyuriWriter
NextAppend ==
    \/ Setup
    \/ Manager_suspend("u1")
    \/ drop_manager("u1")
    \/ set_message("u2")
    \/ BarSteps("u2")
    \/ writer_write("u2")
    \/ writer_direct("u2")
    \/ \E t \in Users : SuspendSteps(t) \/ DrawSteps(t) \/ fields(t)

SpecAppend == InitWith(MaxOps + 1) /\ [][NextAppend]_vars

\* C23: when the sink is not a terminal, no erase is ever written, by draw,
\* by suspend or through a KyuriWriter: a step appends only the line of a
\* registered bar that was visible and marked for redraw, written by a draw
\* request, or the output of a body; and a suspend, called directly or by a
\* KyuriWriter, writes its body and nothing else, never reaches draw_inner
\* and leaves every bar's need_redraw, last_lines and last_draw as they are.
C23_AppendMode ==
    [][~term =>
          /\ \A i \in Len(sink) + 1 .. Len(sink') :
                \/ sink'[i].k = "body"
                \/ /\ sink'[i].k = "bar"
                   /\ sink'[i].src \notin SuspendOps
                   /\ sink'[i].id \in reg
                   /\ bars[sink'[i].id].visible
                   /\ bars[sink'[i].id].need_redraw
          /\ \A t \in Users :
                (loc[t].op \in SuspendOps /\ pc[t] \in {"s_out", "s_body", "w_out"}
                    /\ Acting(t))
                    => /\ pc'[t] \notin {"s_states", "d_inner"}
                       /\ sink' = IF pc[t] = "s_out" THEN sink ELSE Append(sink, Body(t))
                       /\ UNCHANGED <<bars, last_lines, last_draw, need_redraw>>]_vars

\* without a terminal, a suspend and a write through a KyuriWriter have
\* returned after a frame was drawn and a message was changed: the sink
\* holds both bodies, and the changed bar is still marked for redraw
C23_Witness ==
    /\ ~term
    /\ ret["u1"].op = "suspend"
    /\ ret["u2"].op = "write"
    /\ pc["u1"] = "idle"
    /\ pc["u2"] = "idle"
    /\ \E i, j, k \in DOMAIN sink :
          /\ sink[i].k = "bar"
          /\ sink[j].k = "body" /\ sink[j].src = "suspend" /\ i < j
          /\ sink[k].k = "body" /\ sink[k].src = "write"
    /\ \E b \in reg : bars[b].visible /\ bars[b].need_redraw

\* -------------------------------------------------------- lock order
\* C24: the lock order is respected by every operation: a thread that is
\* about to lock last_draw holds neither out nor states, a thread that is
\* about to lock out does not hold states, and a thread that holds the
\* lock of a BarState is not inside a draw request and is not about to lock
\* last_draw, out, states or a BarState.
C24_LockOrder ==
    \A t \in Threads :
        /\ Wants(t) = "last_draw" => (lk["out"] # t /\ lk["states"] # t)
        /\ Wants(t) = "out" => lk["states"] # t
        /\ (\E b \in BarIds : blk[b] = t)
              => /\ pc[t] \notin DrawPcs
                 /\ Wants(t) \notin {"last_draw", "out", "states"}
                 /\ WantsBar(t) < 0

\* ---------------------------------------------------- deadlock freedom
\* the steps a thread takes inside a call
Running(t) ==
    \/ insert(t)
    \/ get_manager_and_state(t)
    \/ mutate(t)
    \/ access(t)
    \/ set_visible_lock(t)
    \/ remove(t)
    \/ mark_redraw(t)
    \/ release(t)
    \/ SuspendSteps(t)
    \/ DrawSteps(t)

\* the calls of a drawer
Drawer(t) ==
    \/ create_bar_running(t)
    \/ Manager_draw(t)
    \/ Manager_suspend(t)
    \/ drop_bar(t)

\* the calls of a mutator
Mutator(t) ==
    \/ inc(t)
    \/ set_pos(t)
    \/ set_len(t)
    \/ set_message(t)
    \/ set_template(t)
    \/ set_visible(t)
    \/ get_pos(t)
    \/ get_len(t)
    \/ is_visible(t)
    \/ drop_bar(t)

NextLocks ==
    \/ create_bar("u1")
    \/ Spawn
    \/ Drawer("u1")
    \/ Mutator("u2")
    \/ \E t \in Users : Running(t)

\* every thread that can take a step inside a call takes one in the end
SpecLocks ==
    /\ Init
    /\ [][NextLocks]_vars
    /\ \A t \in Users : WF_vars(Running(t))

\* C25: no deadlock between drawers and mutators: while threads call
\* create_bar, draw, suspend, the mutators, set_visible, the accessors and
\* drop bar handles, no thread waits in a cycle of threads that wait for
\* one another's locks, and, the threads being scheduled fairly, every call
\* that was started returns.
C25_DeadlockFree ==
    /\ [](\A t \in Users : ~Stuck(t))
    /\ \A t \in Users : (pc[t] # "idle") ~> (pc[t] = "idle")

\* the drawer is about to lock the BarState of a bar inside draw_inner,
\* holding last_draw, out and states, while the mutator waits for states
\* to look the same bar up
C25_Witness ==
    /\ pc["u1"] = "d_inner"
    /\ lk["last_draw"] = "u1"
    /\ lk["out"] = "u1"
    /\ lk["states"] = "u1"
    /\ WantsBar("u1") >= 0
    /\ pc["u2"] = "gms"
    /\ loc["u2"].op \in Mutators
    /\ loc["u2"].bar = WantsBar("u1")

\* ------------------------------------------------------------ erase
\* what the draw request that t runs has written
Drawn(t) ==
    {i \in DOMAIN sink : sink[i].by = t /\ sink[i].op = loc[t].id
                         /\ sink[i].src = loc[t].op}

\* C26: on a terminal a performed draw has written, when it ends and as
\* the uninterrupted end of the sink, one erase per line of the last frame
\* and then its bar lines when the registry is not empty, and no erase at
\* all when the registry is empty.
C26_EraseLastFrame ==
    [][\A t \in Users :
          (term /\ pc[t] = "d_inner" /\ loc[t].op \notin SuspendOps
              /\ pc'[t] # "d_inner")
              => LET n == Cardinality(Drawn(t))
                     first == Len(sink) - n + 1
                     erased == IF reg # {} THEN last_lines ELSE 0
                 IN /\ Drawn(t) = first .. Len(sink)
                    /\ n >= erased
                    /\ \A i \in Drawn(t) :
                          sink[i].k = IF i - first < erased THEN "erase" ELSE "bar"]_vars

\* on a terminal the last bar was dropped and the draw of the drop has
\* reached draw_inner with the frame of the bar still on the screen: it
\* has written nothing, while the draw before it had erased a frame
C26_Witness ==
    \E t \in Users :
        /\ term
        /\ pc[t] = "d_inner"
        /\ loc[t].op = "drop"
        /\ reg = {}
        /\ last_lines > 0
        /\ Drawn(t) = {}
        /\ \E i \in DOMAIN sink : sink[i].k = "erase"

\* ---------------------------------------------------------- mutators
\* set_len with the length the bars are created with
set_len_again(t) == \E b \in BarIds, l \in NewLens : BarCall(t, b, "set_len", l, FALSE)

\* a worker calls the mutators while the main thread draws
NextMutate ==
    \/ Setup
    \/ Manager_draw("u1")
    \/ inc("u2")
    \/ set_pos("u2")
    \/ set_len("u2")
    \/ set_len_again("u2")
    \/ set_message("u2")
    \/ set_template("u2")
    \/ BarSteps("u2")
    \/ \E t \in Users : DrawSteps(t)

SpecMutate == Init /\ [][NextMutate]_vars

\* C27: the dirty flags, not the changes of value, drive the redraws: a
\* call of inc, set_pos, set_len, set_message or set_template that has
\* found its bar stores the value and sets the bar's need_redraw, whatever
\* the value was before, then sets the manager's need_redraw, then makes one
\* unforced draw request, and returns when that request returns.
C27_MutatorsMarkDirty ==
    [][\A t \in Users :
          LET b == loc[t].bar
          IN loc[t].op \in Mutators =>
                /\ (pc[t] = "mut" /\ pc'[t] # "mut")
                      => /\ bars'[b] = [Mutated(bars[b], loc[t].op, loc[t].arg)
                                           EXCEPT !.need_redraw = TRUE]
                         /\ dirt'[b]
                         /\ pc'[t] = "mark"
                /\ (pc[t] = "mark" /\ pc'[t] # "mark")
                      => /\ need_redraw'
                         /\ pc'[t] = "d0"
                         /\ ~loc'[t].force
                /\ (pc[t] # "d0" /\ pc'[t] = "d0") => pc[t] = "mark"
                /\ (pc[t] \in DrawPcs /\ pc'[t] \notin DrawPcs) => pc'[t] = "rel"
                /\ (pc[t] = "rel" /\ pc'[t] # "rel") => pc'[t] = "idle"]_vars

\* the first call after the bars were created and drawn is a set_len with
\* the length its bar already has: the bar and the manager are marked for
\* redraw although nothing changed, and the draw request is about to start
C27_Witness ==
    \E b \in reg :
        /\ nops = 1
        /\ pc["u2"] = "d0"
        /\ loc["u2"].op = "set_len"
        /\ loc["u2"].bar = b
        /\ loc["u2"].arg \in NewLens
        /\ bars[b].len = loc["u2"].arg
        /\ bars[b].need_redraw
        /\ need_redraw
        /\ \E i \in DOMAIN sink :
              /\ sink[i].k = "bar" /\ sink[i].id = b
              /\ sink[i].len = bars[b].len

\* -------------------------------------------------------- one ticker
\* the main thread calls set_ticker(true) and a worker set_ticker(false)
\* while the ticker thread runs
NextOneTicker ==
    \/ Setup
    \/ started /\ set_ticker_to("u1", TRUE)
    \/ started /\ set_ticker_to("u2", FALSE)
    \/ stop("u2")
    \/ join("u2")
    \/ ticker_upgrade
    \/ ticker_wait
    \/ ticker_end
    \/ ticker_break
    \/ \E t \in Threads : DrawSteps(t)

SpecOneTicker == Init /\ [][NextOneTicker]_vars

\* C28: a manager has at most one ticker thread: a call of set_ticker that
\* returns at once either touches nothing, neither the ticker, its thread
\* and its stop flag nor a lock or the sink, or it is a set_ticker(true)
\* that found no ticker and no thread and starts one; set_ticker(true)
\* always returns at once, so on a ticking manager it starts no second
\* thread and leaves the running one as it is; and set_ticker(false) goes
\* on to stop a ticker only if there is one.
C28_OneTicker ==
    [][/\ (nops' # nops /\ \A t \in Users : pc'[t] = pc[t])
             => \/ UNCHANGED <<tvars, pc, loc, mvars, lvars, sink>>
                \/ /\ ~ticker /\ ticker'
                   /\ pc[Tk] = "exited" /\ pc'[Tk] = "t_up"
                   /\ ~stopped'
                   /\ ret'["u1"].op = "set_ticker"
                   /\ ret'["u2"] = ret["u2"]
       /\ started => pc'["u1"] = "idle"
       /\ (pc["u2"] = "idle" /\ pc'["u2"] # "idle") => (ticker /\ pc'["u2"] = "stop")
       /\ (ticker' /\ ~ticker) => pc[Tk] = "exited"]_vars

\* the main thread has called set_ticker(true) twice and the worker has
\* called nothing: the second call found the ticker set, and the thread of
\* the first call is waiting in its first iteration
C28_Witness ==
    /\ started
    /\ nops = 2
    /\ ret["u1"].op = "set_ticker"
    /\ ret["u2"].op = "none"
    /\ pc["u2"] = "idle"
    /\ ticker
    /\ ~stopped
    /\ pc[Tk] = "t_wait"
    /\ ticks = 0

\* ------------------------------------------- drop with the ticker on
\* the main thread sets the ticker, creates the bars and drops the Manager
\* while the ticker thread runs
NextDropTicker ==
    \/ Setup
    \/ ~started /\ set_ticker_to("u1", TRUE)
    \/ drop_manager("u1")
    \/ join("u1")
    \/ join_self
    \/ ticker_upgrade
    \/ ticker_wait
    \/ ticker_end
    \/ \E t \in Threads : DrawSteps(t) \/ fields(t) \/ stop(t)

SpecDropTicker == Init /\ [][NextDropTicker]_vars

\* C29 as stated: once the Manager is dropped with the ticker enabled, no
\* thread is blocked for ever, so the manager is destroyed and the ticker
\* thread ends
C29_DropTerminates ==
    \A t \in Threads : (~handle /\ ticker) => ~Stuck(t)

\* ---------------------------------------------------- last_draw
\* C30 as stated: last_draw never decreases: the instant a performed draw
\* stores is not earlier than the one the draw before it stored
C30_LastDrawMonotone == [][last_draw' >= last_draw]_vars

\* ------------------------------------------- the ticker joins itself
\* C31 as stated: the last strong reference to the manager is never
\* released on the ticker thread, so the ticker thread never runs
\* ManagerInner::drop (the final draw, then the drop of the fields with
\* Ticker's stop and join) and never joins itself
C31_NeverJoinsItself ==
    /\ loc[Tk].op # "mgr_drop"
    /\ pc[Tk] \notin {"fields", "stop", "join", "hung"}

\* ------------------------------------------------- the dirty flags
\* the main thread creates the bars, with the ticker set or not, and then
\* draws, forced or not, and shows and hides bars while a worker
\* increments them, all within one interval of Manager::new; the requests
\* of the ticker thread, all of them unforced and made with the ticker
\* set, are left out
NextDirty ==
    \/ Setup
    \/ ~started /\ set_ticker_to("u1", TRUE)
    \/ Manager_draw("u1")
    \/ set_visible("u1")
    \/ inc("u2")
    \/ \E t \in Users : set_visible_lock(t) \/ BarSteps(t) \/ DrawSteps(t)

SpecDirty == Init /\ [][NextDirty]_vars

\* the manager is alive and no thread is inside a method of a handle, a
\* draw or a suspend
Quiet ==
    /\ mgr = "alive"
    /\ \A t \in Users : pc[t] = "idle"
    /\ pc[Tk] \notin DrawPcs

\* entry b of the registry is visible and its own dirty flag is set
Unrendered(b) == b \in reg /\ bars[b].visible /\ bars[b].need_redraw

\* C32: whenever the manager is alive and no handle operation, draw or
\* suspend is in progress, a visible entry of the registry whose own dirty
\* flag is set has the global dirty flag set with it; an unforced request
\* dropped by the ticker gate or by the rate-limit gate returns and leaves
\* the global flag, every BarState and the sink as they were; and a forced
\* request that finds the global flag set goes on to draw, where it writes
\* every visible dirty entry it visits and clears that entry's flag
C32_NoLostMutation ==
    /\ (Quiet /\ \E b \in BarIds : Unrendered(b)) => need_redraw
    /\ [][/\ (Quiet' /\ \E b \in BarIds : Unrendered(b)') => need_redraw'
          /\ \A t \in Threads :
                (Acting(t) /\ loc[t].op \notin SuspendOps) =>
                   /\ (pc[t] = "d0" /\ ~loc[t].force /\ ticker) =>
                         /\ pc'[t] \notin DrawPcs
                         /\ UNCHANGED <<need_redraw, bars, reg, sink>>
                   /\ (pc[t] = "d_lock" /\ ~loc[t].force
                          /\ Since(loc[t].now, last_draw) < Interval) =>
                         /\ pc'[t] \notin DrawPcs
                         /\ UNCHANGED <<need_redraw, bars, reg, sink>>
                   /\ (pc[t] = "d_lock" /\ loc[t].force /\ need_redraw) =>
                         pc'[t] = "d_out"
                   /\ (pc[t] = "d_inner" /\ pc'[t] = "d_inner" /\ loc[t].force
                          /\ Unrendered(Min(Rest(t)))) =>
                         /\ sink' = Append(sink, BarLine(t, Min(Rest(t)),
                                                         bars[Min(Rest(t))]))
                         /\ ~bars'[Min(Rest(t))].need_redraw]_vars

\* the worker's inc was dropped by the rate-limit gate while the ticker is
\* off: nothing runs, the new position is in no line of the sink, and the
\* bar's flag and the global flag are both set
C32_Witness ==
    /\ Quiet
    /\ ~ticker
    /\ ret["u2"].op = "inc"
    /\ need_redraw
    /\ \E b \in BarIds :
          /\ Unrendered(b)
          /\ bars[b].pos > 0
          /\ \A i \in DOMAIN sink : sink[i].k = "bar" /\ sink[i].id = b => sink[i].pos = 0
          /\ \E i \in DOMAIN sink : sink[i].k = "bar" /\ sink[i].id = b

====
